---- MODULE Spec2Model ----
(***************************************************************************)
(* State-machine model of the spectral synthesis engine of QCLAS           *)
(* (specCal.py: calDas, calWms) together with the line database it calls   *)
(* (hapi) and the GUI entry point that drives it (qclasGUI.py: calPlot),   *)
(* of the functions peakTroughHeight and generateEtalons of specCal.py,    *)
(* and of the ngas object of lineInfo.py.                                  *)
(*                                                                         *)
(* Numbers are scaled to small integers:                                   *)
(*   - wavenumbers are integers (cm^-1);                                   *)
(*   - pressures are multiples of 1013 hPa, so p / 1.013e3 is exact;       *)
(*   - exp(-a) is the fixed-point power 2^-a with the gradual underflow    *)
(*     of IEEE doubles: below the smallest positive value the result is 0. *)
(***************************************************************************)
EXTENDS Integers, Sequences, FiniteSets, TLC

VARIABLES
    tables,    \* hapi's table cache: table name -> set of lines [nu, sw]
    tables0,   \* the table cache as the running (or last) top-level call found it
    pc,        \* "idle" | "das" (inside calDas' loop) | "done" (the call has ended)
    req,       \* inputs of the running (or last) top-level call
    frame,     \* arguments calDas was called with
    nu,        \* calDas' local nu (rebound at every adapter call)
    idx,       \* calDas' loop index (1-based position in gasList)
    results,   \* calDas' local results list
    log,       \* line-database calls made by the running top-level call
    ret,       \* outcome of the last finished top-level call
    ref,       \* an earlier finished call kept for comparison: inputs, database, outcome
    wms,       \* calWms' local waveforms (simulation method) of the running call
    ngas,      \* the lineInfo.ngas object: its lists T, P, molec and the keys of hinfo
    cwd        \* the working directory of the process (lineInfo changes it)

vars == <<tables, tables0, pc, req, frame, nu, idx, results, log, ret, ref, wms, ngas, cwd>>

----------------------------------------------------------------------------
(* Bounds of the model *)

MaxGases == 3          \* longest gas list of a batch
MaxPairGases == 1      \* longest gas list in the two-call comparisons
ExpUnderflow == 6      \* exp(-a) is 0 from this a on (doubles: 2^-1075)
GridTop == 9           \* wavenumbers range over 0..GridTop in the range study
MaxSignal == 5         \* longest signal given to peakTroughHeight
MaxEtalons == 2        \* longest list of parts given to generateEtalons
MaxNgas == 2           \* most gases held by the ngas object

----------------------------------------------------------------------------
(* Helpers on sequences and sets of integers *)

SetMin(S) == CHOOSE x \in S : \A y \in S : x <= y
SetMax(S) == CHOOSE x \in S : \A y \in S : x >= y
Range(s) == {s[i] : i \in 1..Len(s)}

\* np.min / np.max of an array
npMin(a) == SetMin(Range(a))
npMax(a) == SetMax(Range(a))

RECURSIVE Insert(_, _)
Insert(x, s) ==
    IF s = <<>> THEN <<x>>
    ELSE IF x <= Head(s) THEN <<x>> \o s
    ELSE <<Head(s)>> \o Insert(x, Tail(s))

RECURSIVE npsort(_)
npsort(a) == IF a = <<>> THEN <<>> ELSE Insert(Head(a), npsort(Tail(a)))

Abs(x) == IF x < 0 THEN -x ELSE x

RECURSIVE Pow2(_)
Pow2(k) == IF k <= 0 THEN 1 ELSE 2 * Pow2(k - 1)

----------------------------------------------------------------------------
(* The line database (hapi) *)

\* Tables present after db_begin_pickle: two gases with their lines.
LineData ==
    [NH3 |-> {[nu |-> 4, sw |-> 2], [nu |-> 6, sw |-> 1]},
     H2O |-> {[nu |-> 6, sw |-> 1], [nu |-> 8, sw |-> 2]}]

\* hapi.tableList()
tableList(tb) == DOMAIN tb

\* hapi.getColumn(name, 'nu')
getColumn(tb, name) == {ln.nu : ln \in tb[name]}

\* hapi.select(name, Conditions=('AND', ('BETWEEN','nu',lo,hi), ('>=','sw',iCut)),
\*             DestinationTableName='tmp')
select(tb, name, lo, hi, iCut) ==
    LET sel == {ln \in tb[name] : ln.nu >= lo /\ ln.nu <= hi /\ ln.sw >= iCut}
    IN  [t \in DOMAIN tb \cup {"tmp"} |-> IF t = "tmp" THEN sel ELSE tb[t]]

\* hapi.dropTable('tmp')
dropTable(tb) == [t \in DOMAIN tb \ {"tmp"} |-> tb[t]]

\* Line profile of one line at distance d from its centre, at temperature T and
\* pressure p: pressure broadens the collisional profiles, temperature the Doppler one.
LineProfile(profile, d, T, p) ==
    CASE profile = "Voigt"   -> IF d = 0 THEN 2 ELSE IF d <= p THEN 1 ELSE 0
      [] profile = "HT"      -> IF d = 0 THEN 2 ELSE IF d <= p THEN 1 ELSE 0
      [] profile = "Lorentz" -> IF d <= p THEN 1 ELSE 0
      [] profile = "Doppler" -> IF d < T THEN 2 ELSE 0

RECURSIVE SumLines(_, _, _, _, _)
SumLines(lines, profile, g, T, p) ==
    IF lines = {} THEN 0
    ELSE LET ln == CHOOSE l \in lines : TRUE
         IN  ln.sw * LineProfile(profile, Abs(g - ln.nu), T, p)
             + SumLines(lines \ {ln}, profile, g, T, p)

\* hapi.absorptionCoefficient_<profile>(SourceTables='tmp', OmegaGrid=nu,
\*     Environment={'T': t, 'p': p}[, IntensityThreshold=iCut]) -> (Omegas, Xsect).
\* The returned grid is the given grid sorted; Voigt is called without a threshold.
absorptionCoefficient(tb, profile, grid, T, p, iCut) ==
    LET omegas == npsort(grid)
        thr == IF profile = "Voigt" THEN 0 ELSE iCut
        lines == {ln \in tb["tmp"] : ln.sw >= thr}
    IN  [nu |-> omegas,
         coeff |-> [i \in 1..Len(omegas) |-> SumLines(lines, profile, omegas[i], T, p)]]

----------------------------------------------------------------------------
(* Unit conversions *)

AtmInHPa == 1013       \* gasParams['p'] / 1.013e3: hPa per atm
NumDenFactor == 2      \* scaled 1.013e5 / kb * 1e-6 of mixRatio2numDen
MolDenFactor == 3      \* scaled nA * 1e-6 of the molar-density conversion

\* mixRatio2numDen(c, p, T): n = p * 1.013e5 / kb / T * 1e-6 * c
mixRatio2numDen(c, p, T) == (NumDenFactor * p * c) \div T

\* np.exp(-a) in fixed point: 2^-a scaled by 2^(ExpUnderflow-1); like a double it
\* is 1 at a = 0, strictly decreasing while positive, and 0 once a reaches the
\* underflow threshold. A negative a gives a value above 1.
ExpOne == Pow2(ExpUnderflow - 1)
npExpNeg(a) ==
    IF a >= ExpUnderflow THEN 0
    ELSE IF a >= 0 THEN Pow2(ExpUnderflow - 1 - a)
    ELSE ExpOne * Pow2(-a)

----------------------------------------------------------------------------
(* calDas, one loop iteration at a time *)

Profiles == {"Voigt", "HT", "Doppler", "Lorentz"}

MsgNoGas == "Cannot find specified gas."
MsgNoLines == "Cannot find lines within specified wavenumber range, please download data."
MsgNoProfile == "No suitable profile."

NoValue == <<>>
Outcome(kind, msg, val) == [kind |-> kind, msg |-> msg, val |-> val]
NoOutcome == Outcome("none", "", NoValue)

\* One call into the database: its name and the gas (position in the list) it is
\* made for; for absorptionCoefficient also the grid handed over and the grid and
\* coefficients returned.
Op(name, i) == [op |-> name, i |-> i, grid |-> <<>>, nu |-> <<>>, coeff |-> <<>>]
AdapterOp(i, grid, ac) ==
    [op |-> "absorptionCoefficient", i |-> i, grid |-> grid, nu |-> ac.nu,
     coeff |-> ac.coeff]

\* Line 154: the gas is not a table of the database.
GasUnknown(tb, gasParams) == gasParams.gas \notin tableList(tb)

\* The range test without its first comparison.
RangeMismatchNoLow(grid, nuInTable) ==
    \/ npMin(grid) > SetMax(nuInTable) + 1
    \/ npMax(grid) > SetMax(nuInTable) + 1
    \/ npMax(grid) < SetMin(nuInTable) - 1

\* The range test with the tolerance bounds excluded.
RangeMismatchStrict(grid, nuInTable) ==
    \/ npMin(grid) <= SetMin(nuInTable) - 1
    \/ npMin(grid) >= SetMax(nuInTable) + 1
    \/ npMax(grid) >= SetMax(nuInTable) + 1
    \/ npMax(grid) <= SetMin(nuInTable) - 1

\* Lines 157-160: the range test on the grid and the tabulated line positions.
RangeMismatch(grid, nuInTable) ==
    \/ npMin(grid) < SetMin(nuInTable) - 1
    \/ npMin(grid) > SetMax(nuInTable) + 1
    \/ npMax(grid) > SetMax(nuInTable) + 1
    \/ npMax(grid) < SetMin(nuInTable) - 1

\* Lines 168-172: the number density n; it stays unbound when both flags are off.
NumberDensity(gasParams, p, xi_to_nden, mden_to_nden) ==
    IF mden_to_nden THEN [bound |-> TRUE, val |-> MolDenFactor * gasParams.c]
    ELSE IF xi_to_nden
         THEN [bound |-> TRUE, val |-> mixRatio2numDen(gasParams.c, p, gasParams.t)]
         ELSE [bound |-> FALSE, val |-> 0]

\* The mode step scaling the coefficient in every mode.
ApplyModeScaled(mode, coeff, n, l) ==
    IF mode = "Transmission" THEN [i \in DOMAIN coeff |-> npExpNeg(coeff[i] * n * l)]
    ELSE [i \in DOMAIN coeff |-> coeff[i] * n * l]

\* The mode step with the path length left out of the transmission.
ApplyModeNoPath(mode, coeff, n, l) ==
    IF mode = "Absorbance" THEN [i \in DOMAIN coeff |-> coeff[i] * n * l]
    ELSE IF mode = "Transmission" THEN [i \in DOMAIN coeff |-> npExpNeg(coeff[i] * n)]
    ELSE coeff

\* Lines 198-202: the spectrum of one gas from the raw coefficient.
ApplyMode(mode, coeff, n, l) ==
    IF mode = "Absorbance" THEN [i \in DOMAIN coeff |-> coeff[i] * n * l]
    ELSE IF mode = "Transmission" THEN [i \in DOMAIN coeff |-> npExpNeg(coeff[i] * n * l)]
    ELSE coeff

\* Lines 204-207: the result record of one gas.
Result(gasParams, grid, spectrum) ==
    [gasParams |-> gasParams, nu |-> grid, spectrum |-> spectrum]

\* Lines 154-208: the body of the loop for gas number i of the list, from the
\* database tb and the current binding of nu. It ends the call with a message
\* (return str), ends it with an exception, or appends a result and rebinds nu.
DasBody(tb, i, gasParams, grid, f) ==
    IF GasUnknown(tb, gasParams)
    THEN [kind |-> "message", msg |-> MsgNoGas, tables |-> tb,
          ops |-> <<Op("tableList", i)>>]
    ELSE IF RangeMismatch(grid, getColumn(tb, gasParams.gas))
    THEN [kind |-> "message", msg |-> MsgNoLines, tables |-> tb,
          ops |-> <<Op("tableList", i), Op("getColumn", i)>>]
    ELSE
      LET tb1 == select(tb, gasParams.gas, npMin(grid), npMax(grid), f.iCut)
          p == gasParams.p \div AtmInHPa
          t == gasParams.t
          n == NumberDensity(gasParams, p, f.xi_to_nden, f.mden_to_nden)
          sel == <<Op("tableList", i), Op("getColumn", i),
                   Op("select", i)>>
      IN  IF f.profile \notin Profiles
          THEN [kind |-> "exception", msg |-> MsgNoProfile, tables |-> tb1, ops |-> sel]
          ELSE
            LET ac == absorptionCoefficient(tb1, f.profile, grid, t, p, f.iCut)
                called == sel \o <<AdapterOp(i, grid, ac)>>
            IN  IF f.mode \in {"Absorbance", "Transmission"} /\ ~n.bound
                THEN [kind |-> "exception", msg |-> "NameError", tables |-> tb1,
                      ops |-> called]
                ELSE [kind |-> "result", msg |-> "", tables |-> dropTable(tb1),
                      ops |-> called \o <<Op("dropTable", i)>>,
                      nu |-> ac.nu,
                      result |-> Result(gasParams, ac.nu,
                                        ApplyMode(f.mode, ac.coeff, n.val, gasParams.l))]

\* A failure that hands back the results gathered so far.
FailurePartial(kind, msg, partial) == Outcome("results", "", partial)

\* A result put in front of the list.
PrependResult(rs, result) == <<result>> \o rs

\* A results list that is not emptied when the call starts.
KeepResults(old) == old

\* Lines 155, 161 and 197: the call ends at once with the message returned (or the
\* exception raised) in place of the results gathered so far.
Failure(kind, msg, partial) == Outcome(kind, msg, NoValue)

\* Line 208: results.append(result).
AppendResult(rs, result) == Append(rs, result)

\* Line 152: results = [] at the start of every call.
NewResults(old) == <<>>

\* The arguments of one calDas call.
DasFrame(gasList, grid, profile, mode, iCut, xi_to_nden, mden_to_nden) ==
    [gasList |-> gasList, nu |-> grid, profile |-> profile, mode |-> mode,
     iCut |-> iCut, xi_to_nden |-> xi_to_nden, mden_to_nden |-> mden_to_nden]

----------------------------------------------------------------------------
(* calWms *)

None == [some |-> FALSE]
Some(v) == [some |-> TRUE, v |-> v]

HdFactor == 1024       \* points of the auxiliary grid per modulation depth (line 330)

\* np.linspace(lo, hi, n) on the integer axis (intermediate points rounded down).
linspace(lo, hi, n) ==
    IF n <= 0 THEN <<>>
    ELSE IF n = 1 THEN <<lo>>
    ELSE [i \in 1..n |-> lo + ((i - 1) * (hi - lo)) \div (n - 1)]

\* np.interp(x, xp, fp): linear between the knots, clamped to the end values.
interp(x, xp, fp) ==
    IF x <= xp[1] THEN fp[1]
    ELSE IF x >= xp[Len(xp)] THEN fp[Len(xp)]
    ELSE LET k == CHOOSE j \in 1..(Len(xp) - 1) : xp[j] <= x /\ x < xp[j + 1]
         IN  fp[k] + ((x - xp[k]) * (fp[k + 1] - fp[k])) \div (xp[k + 1] - xp[k])

\* cos and sin at whole quarter turns.
CosQ(q) == CASE q % 4 = 0 -> 1 [] q % 4 = 2 -> -1 [] OTHER -> 0
SinQ(q) == CASE q % 4 = 1 -> 1 [] q % 4 = 3 -> -1 [] OTHER -> 0

\* Line 330: the auxiliary high-resolution grid of the Theoretical method.
hdNuGrid(grid, dNu) ==
    linspace(npMin(grid), npMax(grid),
             ((npMax(grid) - npMin(grid)) * HdFactor) \div dNu + 1)

\* Lines 339-345: the nf-th harmonic at one wavenumber, by Romberg quadrature over
\* the phase samples u = -pi, -pi/2, 0, pi/2, pi (Boole's weights, scaled by 45).
RombWeights == <<7, 32, 12, 32, 7>>
Harmonic(iNu, dNu, nf, hdNu, coeff) ==
    LET u(k) == k - 3
        sample(k) == interp(iNu + dNu * CosQ(u(k)), hdNu, coeff) * CosQ(nf * u(k))
    IN  RombWeights[1] * sample(1) + RombWeights[2] * sample(2)
        + RombWeights[3] * sample(3) + RombWeights[4] * sample(4)
        + RombWeights[5] * sample(5)

\* Lines 335-356: the results of the Theoretical method from calDas' results.
WmsTheoretical(r, dasResults) ==
    [i \in 1..Len(dasResults) |->
        [gasParams |-> dasResults[i].gasParams,
         nu |-> r.nu,
         spectrum |-> [k \in 1..Len(r.nu) |->
                          Harmonic(r.nu[k], r.dNu.v, r.nf, dasResults[i].nu,
                                   dasResults[i].spectrum)],
         nf |-> r.nf,
         modDepth |-> r.dNu.v]]

\* Lines 379-389: the waveforms of the simulation method over one ramp period.
\* Currents are kept in mA; the tuning rates apply to A, hence the division by 1000.
\* nS = fS / fRamp is a float (read_config yields floats): np.arange(nS) has
\* ceil(nS) elements (line 380), np.linspace(0, aRamp, nS) has int(nS) (line 382).
arangeLen(ls) == (ls.fS + ls.fRamp - 1) \div ls.fRamp
linspaceLen(ls) == ls.fS \div ls.fRamp

\* numpy's broadcasting of two one-dimensional arrays: equal lengths, or one of
\* them of length 1, which is then repeated.
BroadcastOk(a, b) == Len(a) = Len(b) \/ Len(a) = 1 \/ Len(b) = 1
BroadcastLen(a, b) == IF Len(a) = 1 THEN Len(b) ELSE Len(a)
At(a, i) == IF Len(a) = 1 THEN a[1] ELSE a[i]

\* Line 380: the time stamps, as sample numbers (ts * fS), and the phase of the
\* modulation at sample i in quarter turns.
timeStamps(ls) == [i \in 1..arangeLen(ls) |-> i - 1]
TimeQ(ls, i) == (4 * ls.fMod * (i - 1)) \div ls.fS

\* Lines 382-383: twice the ramp and modulation currents.
currRamp2(ls) ==
    LET lin == linspace(0, ls.aRamp, linspaceLen(ls))
    IN  [i \in 1..Len(lin) |-> 2 * lin[i] - ls.aRamp]
currMod2(ls) == [i \in 1..arangeLen(ls) |-> ls.aMod * SinQ(TimeQ(ls, i))]

\* Lines 385-386: the wavenumber of the ramp and of ramp plus modulation.
nuRamp(ls) ==
    [i \in 1..Len(currRamp2(ls)) |->
        (currRamp2(ls)[i] * ls.tRamp * 200) \div 2000 + ls.central_wavelength]
nuTotal(ls) ==
    [i \in 1..BroadcastLen(nuRamp(ls), currMod2(ls)) |->
        At(nuRamp(ls), i) + (At(currMod2(ls), i) * ls.tMod * 200) \div 2000]

\* Line 388: the optical power before clipping.
rawIntensity(ls) ==
    [i \in 1..BroadcastLen(currRamp2(ls), currMod2(ls)) |->
        ((At(currRamp2(ls), i) + At(currMod2(ls), i)) * ls.c2p) \div 2000 + ls.laserDC]

\* The clipping left out.
ClipNothing(a) == a

\* Line 389: intensity[intensity < 0] = 0.
ClipNegative(a) == [i \in DOMAIN a |-> IF a[i] < 0 THEN 0 ELSE a[i]]

intensity(ls) == ClipNegative(rawIntensity(ls))

\* The array left in its order.
flipudNone(a) == a

\* np.flipud(a)
flipud(a) == [i \in 1..Len(a) |-> a[Len(a) + 1 - i]]

\* scipy's lfilter with the Butterworth coefficients, as a first-order recursive
\* low-pass: y[i] = (y[i-1] + x[i]) / 2.
RECURSIVE lfilter(_, _)
lfilter(x, i) == IF i = 0 THEN 0 ELSE (lfilter(x, i - 1) + x[i]) \div 2

\* Lines 401-404: the transmitted signal S of one gas: the spectrum interpolated
\* over calWms' grid at the reversed total wavenumber, times the intensity.
TransmittedSignal(ls, grid, coeff) ==
    LET modCoeff == [k \in 1..Len(nuTotal(ls)) |-> interp(flipud(nuTotal(ls))[k], grid, coeff)]
    IN  [k \in 1..BroadcastLen(intensity(ls), modCoeff) |->
            At(intensity(ls), k) * At(modCoeff, k)]

\* Lines 400-417: the results of the simulation method from calDas' results.
WmsSimulation(r, dasResults) ==
    LET ls == r.laserSpec.v
    IN  [i \in 1..Len(dasResults) |->
          LET S == TransmittedSignal(ls, r.nu, dasResults[i].spectrum)
              ts == timeStamps(ls)
              mixed == [k \in 1..BroadcastLen(S, ts) |->
                           At(S, k) * CosQ(r.nf * TimeQ(ls, At(ts, k) + 1) + ls.phase \div 90)]
          IN  [gasParams |-> dasResults[i].gasParams,
               nu |-> nuRamp(ls),
               spectrum |-> [k \in 1..Len(mixed) |-> lfilter(mixed, k)],
               nf |-> r.nf,
               modDepth |-> (ls.tMod * ls.aMod * 200) \div 2000]]

\* The local arrays of the simulation method once lines 379-389 have run; S
\* gathers the transmitted signal of every gas once the loop of line 400 has run.
NoWms == [set |-> FALSE]
WmsLocals(ls) ==
    [set |-> TRUE, ts |-> timeStamps(ls), currRamp2 |-> currRamp2(ls),
     currMod2 |-> currMod2(ls), nuRamp |-> nuRamp(ls), nuTotal |-> nuTotal(ls),
     intensity |-> intensity(ls), S |-> <<>>]
FinishLocals(r, dasResults, w) ==
    IF r.api = "calWms" /\ r.method = "Simulation with parameters" /\ w.set
    THEN [w EXCEPT !.S = [i \in 1..Len(dasResults) |->
                             TransmittedSignal(r.laserSpec.v, r.nu, dasResults[i].spectrum)]]
    ELSE w

\* calWms going on to its loop over the results whatever calDas returned: a
\* failure of calDas becomes an empty list of results.
FinishSwallow(r, out) ==
    IF r.api = "calWms"
    THEN Outcome("results", "",
                 IF out.kind # "results" THEN <<>>
                 ELSE IF r.method = "Theoretical" THEN WmsTheoretical(r, out.val)
                 ELSE WmsSimulation(r, out.val))
    ELSE out

\* What the top-level call makes of calDas' outcome. calDas hands it to its caller
\* unchanged; calWms returns a str unchanged (lines 333-334, 397-398), lets an
\* exception pass, and builds one WMS result from every DAS result.
Finish(r, out) ==
    IF r.api = "calWms" /\ out.kind = "results"
    THEN Outcome("results", "",
                 IF r.method = "Theoretical" THEN WmsTheoretical(r, out.val)
                 ELSE WmsSimulation(r, out.val))
    ELSE out

\* The inputs of a top-level call: the function called, whether the GUI called
\* it, and its arguments (those of calWms unused by calDas).
Request(api, gui, gasList, grid, profile, mode, iCut, xi_to_nden, mden_to_nden, nf, method, dNu, laserSpec) ==
    [api |-> api, gui |-> gui, gasList |-> gasList, nu |-> grid, profile |-> profile,
     mode |-> mode, iCut |-> iCut, xi_to_nden |-> xi_to_nden,
     mden_to_nden |-> mden_to_nden, nf |-> nf, method |-> method, dNu |-> dNu,
     laserSpec |-> laserSpec]

NoRequest == Request("none", FALSE, <<>>, <<>>, "", "", 0, FALSE, FALSE, 0, "", None, None)

\* Entering calDas (lines 121-152).
EnterDas(f) ==
    /\ frame' = f
    /\ nu' = f.nu
    /\ idx' = 1
    /\ results' = NewResults(results)
    /\ pc' = "das"

\* calWms up to its call of calDas (lines 327-332 and 364-395): the arguments it
\* calls calDas with, or the exception that ends it before.
WmsEntry(r) ==
    IF r.method = "Theoretical"
    THEN IF ~r.dNu.some THEN [kind |-> "exception", msg |-> "TypeError", wms |-> NoWms]
         ELSE IF r.dNu.v = 0
         THEN [kind |-> "exception", msg |-> "ZeroDivisionError", wms |-> NoWms]
         ELSE [kind |-> "das", wms |-> NoWms,
               frame |-> DasFrame(r.gasList, hdNuGrid(r.nu, r.dNu.v), r.profile,
                                  "Transmission", r.iCut, TRUE, FALSE)]
    ELSE IF r.method = "Simulation with parameters"
    THEN IF ~r.laserSpec.some
         THEN [kind |-> "exception", msg |-> "TypeError", wms |-> NoWms]
         ELSE IF r.laserSpec.v.fRamp = 0
         THEN [kind |-> "exception", msg |-> "ZeroDivisionError", wms |-> NoWms]
         ELSE IF ~BroadcastOk(currRamp2(r.laserSpec.v), currMod2(r.laserSpec.v))
         THEN [kind |-> "exception", msg |-> "ValueError", wms |-> NoWms]
         ELSE IF r.laserSpec.v.fS = 0
         THEN [kind |-> "exception", msg |-> "ZeroDivisionError",
               wms |-> WmsLocals(r.laserSpec.v)]
         ELSE IF r.laserSpec.v.fCut <= 0 \/ r.laserSpec.v.fCut >= r.laserSpec.v.fS
         THEN [kind |-> "exception", msg |-> "ValueError",
               wms |-> WmsLocals(r.laserSpec.v)]
         ELSE [kind |-> "das", wms |-> WmsLocals(r.laserSpec.v),
               frame |-> DasFrame(r.gasList, r.nu, r.profile, "Transmission", r.iCut,
                                  r.xi_to_nden, r.mden_to_nden)]
    ELSE [kind |-> "exception", msg |-> "UnboundLocalError", wms |-> NoWms]

\* The top-level call r starts: calDas is entered, directly or from calWms, unless
\* calWms ends with an exception before it calls calDas.
Start(r) ==
    LET e == IF r.api = "calDas"
             THEN [kind |-> "das", wms |-> NoWms,
                   frame |-> DasFrame(r.gasList, r.nu, r.profile, r.mode, r.iCut,
                                      r.xi_to_nden, r.mden_to_nden)]
             ELSE WmsEntry(r)
    IN  /\ pc = "idle"
        /\ req' = r
        /\ log' = <<>>
        /\ tables0' = tables
        /\ IF e.kind = "das"
           THEN /\ EnterDas(e.frame)
                /\ ret' = NoOutcome
           ELSE /\ ret' = Outcome(e.kind, e.msg, NoValue)
                /\ pc' = "done"
                /\ UNCHANGED <<frame, nu, idx, results>>
        /\ wms' = e.wms
        /\ UNCHANGED <<tables, ref, ngas, cwd>>

iCutDefault == 0       \* iCut=1e-30: below the intensity of every line

\* A script calls specCal.calDas(gasList, nu, profile, mode, iCut, ...).
calDas(gasList, grid, profile, mode, iCut, xi_to_nden, mden_to_nden) ==
    Start(Request("calDas", FALSE, gasList, grid, profile, mode, iCut, xi_to_nden,
                  mden_to_nden, 0, "", None, None))

\* A script calls specCal.calWms(gasList, nu, profile, nf, method, laserSpec, dNu, ...).
calWms(gasList, grid, profile, nf, method, laserSpec, dNu, iCut, xi_to_nden, mden_to_nden) ==
    Start(Request("calWms", FALSE, gasList, grid, profile, "", iCut, xi_to_nden,
                  mden_to_nden, nf, method, dNu, laserSpec))

MsgNoLaser == "No laser configuration."

\* The Calculate button of the GUI (AppWindow.calPlot) with DAS checked
\* (lines 427-437): calDas, then a message box for a str and the plot otherwise.
calPlotDas(gasList, grid, profile, mode, iCut) ==
    Start(Request("calDas", TRUE, gasList, grid, profile, mode, iCut, TRUE, FALSE,
                  0, "", None, None))

\* calPlot with WMS checked (lines 438-467). Without a laser configuration the
\* simulation method is not called and the message is shown instead; with one,
\* the ramp is centred on the grid and scaled to its extent.
calPlotWms(gasList, grid, profile, nf, method, dNu, laserSpec) ==
    IF method = "Theoretical"
    THEN Start(Request("calWms", TRUE, gasList, grid, profile, "", iCutDefault, TRUE,
                       FALSE, nf, method, Some(dNu), None))
    ELSE IF ~laserSpec.some
    THEN /\ pc = "idle"
         /\ req' = Request("calWms", TRUE, gasList, grid, profile, "", iCutDefault,
                           TRUE, FALSE, nf, method, None, None)
         /\ ret' = Outcome("message", MsgNoLaser, NoValue)
         /\ pc' = "done"
         /\ log' = <<>>
         /\ tables0' = tables
         /\ UNCHANGED <<tables, frame, nu, idx, results, ref, wms, ngas, cwd>>
    ELSE LET nuMin == grid[1]
             nuMax == grid[Len(grid)]
             ls == [laserSpec.v EXCEPT
                      !.central_wavelength = (nuMin + nuMax) \div 2,
                      !.aRamp = ((nuMax - nuMin) * 1000) \div (200 * laserSpec.v.tRamp)]
         IN  Start(Request("calWms", TRUE, gasList, grid, profile, "", iCutDefault,
                           TRUE, FALSE, nf, "Simulation with parameters", None,
                           Some(ls)))

\* One pass through the loop body (lines 153-208).
DasIter ==
    /\ pc = "das"
    /\ idx <= Len(frame.gasList)
    /\ LET b == DasBody(tables, idx, frame.gasList[idx], nu, frame)
       IN  /\ tables' = b.tables
           /\ log' = log \o b.ops
           /\ IF b.kind = "result"
              THEN /\ results' = AppendResult(results, b.result)
                   /\ nu' = b.nu
                   /\ idx' = idx + 1
                   /\ UNCHANGED <<pc, ret>>
              ELSE /\ ret' = Finish(req, Failure(b.kind, b.msg, results))
                   /\ pc' = "done"
                   /\ UNCHANGED <<results, nu, idx>>
    /\ UNCHANGED <<tables0, req, frame, ref, wms, ngas, cwd>>

\* The loop is over: return results (line 209).
DasReturn ==
    /\ pc = "das"
    /\ idx > Len(frame.gasList)
    /\ ret' = Finish(req, Outcome("results", "", results))
    /\ wms' = FinishLocals(req, results, wms)
    /\ pc' = "done"
    /\ UNCHANGED <<tables, tables0, req, frame, nu, idx, results, log, ref, ngas, cwd>>

\* The caller is done with the outcome: the call's locals and its return value
\* are gone, the database stays as the call left it.
Discard ==
    /\ pc = "done"
    /\ pc' = "idle"
    /\ req' = NoRequest
    /\ frame' = [gasList |-> <<>>]
    /\ nu' = <<>>
    /\ idx' = 0
    /\ results' = <<>>
    /\ log' = <<>>
    /\ ret' = NoOutcome
    /\ tables0' = tables
    /\ wms' = NoWms
    /\ UNCHANGED <<tables, ref, ngas, cwd>>

\* The same, but the list the call returned stays alive with its caller (it is
\* the object calDas' local results was bound to).
Return ==
    /\ pc = "done"
    /\ pc' = "idle"
    /\ req' = NoRequest
    /\ frame' = [gasList |-> <<>>]
    /\ nu' = <<>>
    /\ idx' = 0
    /\ log' = <<>>
    /\ ret' = NoOutcome
    /\ tables0' = tables
    /\ wms' = NoWms
    /\ UNCHANGED <<tables, results, ref, ngas, cwd>>

\* The caller keeps the finished call (inputs, database found, outcome) to compare
\* a later call with.
Keep ==
    /\ pc = "done"
    /\ ref' = [set |-> TRUE, req |-> req, tables0 |-> tables0, ret |-> ret]
    /\ pc' = "idle"
    /\ req' = NoRequest
    /\ frame' = [gasList |-> <<>>]
    /\ nu' = <<>>
    /\ idx' = 0
    /\ log' = <<>>
    /\ ret' = NoOutcome
    /\ tables0' = tables
    /\ wms' = NoWms
    /\ UNCHANGED <<tables, results, ngas, cwd>>

----------------------------------------------------------------------------
(* peakTroughHeight and generateEtalons *)

\* Python's a[lo:hi] on an array of n elements, as the positions (from 0) it
\* takes: a negative bound counts from the end, and bounds are cut to 0..n.
SliceBound(n, k) ==
    IF k < 0 THEN (IF k + n < 0 THEN 0 ELSE k + n) ELSE IF k > n THEN n ELSE k
PySlice(n, lo, hi) == {i \in 0..(n - 1) : i >= SliceBound(n, lo) /\ i < SliceBound(n, hi)}
Sub(a, lo, hi) ==
    [k \in 1..Cardinality(PySlice(Len(a), lo, hi)) |-> a[SliceBound(Len(a), lo) + k]]

\* np.argmax / np.argmin of a non-empty array: the first position (from 0) of
\* the largest / smallest element.
argmax(a) == CHOOSE i \in 0..(Len(a) - 1) :
    /\ \A j \in 0..(Len(a) - 1) : a[j + 1] <= a[i + 1]
    /\ \A j \in 0..(i - 1) : a[j + 1] < a[i + 1]
argmin(a) == CHOOSE i \in 0..(Len(a) - 1) :
    /\ \A j \in 0..(Len(a) - 1) : a[j + 1] >= a[i + 1]
    /\ \A j \in 0..(i - 1) : a[j + 1] > a[i + 1]

RECURSIVE SumAt(_, _)
SumAt(a, pos) ==
    IF pos = {} THEN 0
    ELSE LET i == CHOOSE x \in pos : TRUE IN a[i + 1] + SumAt(a, pos \ {i})

\* np.mean over the positions pos of a, as sum and count; of no element it is nan.
npmean(a, pos) == [sum |-> SumAt(a, pos), n |-> Cardinality(pos)]

\* Lines 482-484: mean(peak) - 0.5 * (mean(left) + mean(right)), as a fraction.
PeakMinusTroughs(mp, ml, mr) ==
    IF mp.n = 0 \/ ml.n = 0 \/ mr.n = 0 THEN [nan |-> TRUE, num |-> 0, den |-> 1]
    ELSE [nan |-> FALSE,
          num |-> 2 * mp.sum * ml.n * mr.n - ml.sum * mp.n * mr.n - mr.sum * mp.n * ml.n,
          den |-> 2 * mp.n * ml.n * mr.n]

\* Lines 482-484: the slice tmpSignal[idx - hWindow:idx + hWindow].
AvgWindow(n, i, hWindow) == PySlice(n, i - hWindow, i + hWindow)

\* peakTroughHeight(signal, startIdx, endIdx, avgWindow) (lines 456-484). The
\* outcome carries the window tmpSignal, the three positions found and the
\* positions averaged around each, besides the height returned.
peakTroughHeight(signal, startIdx, endIdx, avgWindow) ==
    LET tmpSignal == Sub(signal, startIdx, endIdx)
    IN  IF tmpSignal = <<>> THEN Outcome("exception", "ValueError", NoValue)
        ELSE
          LET peakIdx == argmax(tmpSignal)
          IN  IF Sub(tmpSignal, 0, peakIdx) = <<>>
              THEN Outcome("exception", "ValueError", NoValue)
              ELSE
                LET lTroughIdx == argmin(Sub(tmpSignal, 0, peakIdx))
                    rTroughIdx == argmin(Sub(tmpSignal, peakIdx, Len(tmpSignal)))
                    hWindow == avgWindow \div 2
                    n == Len(tmpSignal)
                    wp == AvgWindow(n, peakIdx, hWindow)
                    wl == AvgWindow(n, lTroughIdx, hWindow)
                    wr == AvgWindow(n, rTroughIdx, hWindow)
                IN  Outcome("value", "",
                            [tmpSignal |-> tmpSignal, peakIdx |-> peakIdx,
                             lTroughIdx |-> lTroughIdx, rTroughIdx |-> rTroughIdx,
                             peak |-> wp, left |-> wl, right |-> wr,
                             pth |-> PeakMinusTroughs(npmean(tmpSignal, wp),
                                                      npmean(tmpSignal, wl),
                                                      npmean(tmpSignal, wr))])

\* The coefficient of finesse without the square.
FinesseNoSquare(R) == (4 * R * 10000) \div (100 - R)

\* Line 548: F = 4 * R / (1 - R) ** 2, R in percent and F in 1e-4.
Finesse(R) == (4 * R * 100 * 10000) \div ((100 - R) * (100 - R))

\* Lines 549-550: delta_coeff = 4 * pi * n * l * cos(degrees(theta)), pi in
\* 1e-3, n in 1e-2, l in 1e-1; theta is counted in steps of pi^2/360 rad, which
\* np.degrees turns into that many quarter turns.
DeltaCoeff(param) == 4 * 3142 * param.n * param.l * CosQ(param.theta)

\* generateEtalons(etalonParams) (lines 529-551): one coefficient record per
\* parameter record; R = 1 divides by zero. The outcome carries the list that
\* was passed in as the call leaves it.
generateEtalons(etalonParams) ==
    IF \E i \in 1..Len(etalonParams) : etalonParams[i].R = 100
    THEN Outcome("exception", "ZeroDivisionError", NoValue)
    ELSE Outcome("value", "",
                 [etalonCoeffs |-> [i \in 1..Len(etalonParams) |->
                                       [F |-> Finesse(etalonParams[i].R),
                                        delta_coeff |-> DeltaCoeff(etalonParams[i])]],
                  etalonParams |-> etalonParams])

\* A script calls a function that touches neither the database nor an object.
CallUtil(r, out) ==
    /\ pc = "idle"
    /\ req' = r
    /\ ret' = out
    /\ pc' = "done"
    /\ UNCHANGED <<tables, tables0, frame, nu, idx, results, log, ref, wms, ngas, cwd>>

----------------------------------------------------------------------------
(* lineInfo.ngas *)

HomeDir == "."
DataDir == "./Data"

\* The molecules whose .mat file is in ./Data.
MatFiles == {"NH3", "H2O"}

\* ngas.__init__ (lines 22-27); hinfo is kept as the set of its keys.
NewNgas == [T |-> <<>>, P |-> <<>>, molec |-> <<>>, hinfo |-> {}, location |-> DataDir]

\* The lists after the three appends of lines 62-64 and 74-76.
AppendGas(self, molec, T, P) ==
    [self EXCEPT !.molec = Append(self.molec, molec), !.T = Append(self.T, T),
                 !.P = Append(self.P, P)]

\* ngas.__getinfo(molec) (lines 30-50) from the object self and working directory
\* dir. os.chdir(location) is relative: it succeeds from the home directory only.
\* A molecule that is not a text cannot be joined with '.mat'; a text without its
\* file cannot be loaded. An exception leaves the working directory where it is.
getinfo(self, dir, molec) ==
    IF dir # HomeDir
    THEN [kind |-> "exception", msg |-> "OSError", self |-> self, cwd |-> dir]
    ELSE IF molec.type \in {"str", "unicode"} /\ molec.name \in self.hinfo
    THEN [kind |-> "none", msg |-> "", self |-> self, cwd |-> dir]
    ELSE IF molec.type \notin {"str", "unicode"}
    THEN [kind |-> "exception", msg |-> "TypeError", self |-> self, cwd |-> self.location]
    ELSE IF molec.name \notin MatFiles
    THEN [kind |-> "exception", msg |-> "IOError", self |-> self, cwd |-> self.location]
    ELSE [kind |-> "none", msg |-> "",
          self |-> [self EXCEPT !.hinfo = self.hinfo \cup {molec.name}], cwd |-> dir]

\* The type test of line 59 turned round.
IsPromptedNotStr(molec) == molec.type # "str"

\* Line 59: if type(molec) == str, the prompt is printed and nothing is added.
IsPrompted(molec) == molec.type = "str"

\* ngas.addgas(molec, T, P) (lines 52-65).
addgas(self, dir, molec, T, P) ==
    IF IsPrompted(molec)
    THEN [kind |-> "none", msg |-> "", self |-> self, cwd |-> dir]
    ELSE getinfo(AppendGas(self, molec, T, P), dir, molec)

\* ngas.setngas(molecTable) (lines 67-77): the loop stops at the first exception.
RECURSIVE setngas(_, _, _)
setngas(self, dir, molecTable) ==
    IF molecTable = <<>>
    THEN [kind |-> "none", msg |-> "", self |-> self, cwd |-> dir]
    ELSE LET gas == Head(molecTable)
             g == getinfo(AppendGas(self, gas[1], gas[2], gas[3]), dir, gas[1])
         IN  IF g.kind = "exception" THEN g
             ELSE setngas(g.self, g.cwd, Tail(molecTable))

\* ngas.clear() (lines 79-83).
clear(self) == NewNgas

\* A script calls a method of the ngas object: the object and the working
\* directory become what the method leaves, also when it ends with an exception.
CallNgas(r, out) ==
    /\ pc = "idle"
    /\ req' = r
    /\ ngas' = out.self
    /\ cwd' = out.cwd
    /\ ret' = Outcome(out.kind, out.msg, NoValue)
    /\ pc' = "done"
    /\ UNCHANGED <<tables, tables0, frame, nu, idx, results, log, ref, wms>>

----------------------------------------------------------------------------
(* Inputs *)

\* Gas entries of a batch: two gases of the database and one that is not in it.
GasParamsSet ==
    [gas : {"NH3", "H2O", "CO"}, p : {1013}, t : {1}, l : {1}, c : {1}]

SeqsUpTo(S, n) == UNION {[1..k -> S] : k \in 0..n}

GasLists == SeqsUpTo(GasParamsSet, MaxGases)

\* Grids: inside both gases' line ranges (ascending and descending), inside
\* NH3's range only, and outside both.
Grids == {<<5, 7>>, <<7, 5>>, <<4, 6>>, <<1, 2>>}

\* The four profiles and one the engine does not know.
ProfileInputs == Profiles \cup {"Gauss"}

Modes == {"Absorp coeff", "Absorbance", "Transmission"}

ICuts == {iCutDefault}

WmsProfileInputs == {"Voigt", "Gauss"}

WmsGrids == {<<5, 7>>, <<4, 6>>}

Harmonics == {2}

\* A laser configuration as read_config returns it.
Laser ==
    [fS |-> 8, fMod |-> 2, fRamp |-> 2, aRamp |-> 20, aMod |-> 10, tRamp |-> 5,
     tMod |-> 5, c2p |-> 1, laserDC |-> 5, fCut |-> 1, phase |-> 0,
     central_wavelength |-> 6]

\* Method, modulation depth and laser configuration of a calWms call.
WmsInputs ==
    [method : {"Theoretical"}, dNu : {None, Some(1024), Some(2048)}, laserSpec : {None}]
    \cup [method : {"Simulation with parameters"}, dNu : {None},
          laserSpec : {None, Some(Laser)}]

\* The same as the GUI holds them: the depth is always a number.
GuiWmsInputs ==
    [method : {"Theoretical"}, dNu : {1024, 2048}, laserSpec : {None}]
    \cup [method : {"Simulation with parameters"}, dNu : {1024},
          laserSpec : {None, Some(Laser)}]

----------------------------------------------------------------------------
(* Specifications *)

NoRef == [set |-> FALSE, req |-> NoRequest, tables0 |-> LineData, ret |-> NoOutcome]

Init ==
    /\ tables = LineData
    /\ tables0 = LineData
    /\ pc = "idle"
    /\ req = NoRequest
    /\ frame = [gasList |-> <<>>]
    /\ nu = <<>>
    /\ idx = 0
    /\ results = <<>>
    /\ log = <<>>
    /\ ret = NoOutcome
    /\ ref = NoRef
    /\ wms = NoWms
    /\ ngas = NewNgas
    /\ cwd = HomeDir

CallDas ==
    /\ pc = "idle"
    /\ \E gasList \in GasLists, grid \in Grids, profile \in ProfileInputs,
       mode \in Modes, iCut \in ICuts :
        calDas(gasList, grid, profile, mode, iCut, TRUE, FALSE)

CallWms ==
    /\ pc = "idle"
    /\ \E gasList \in GasLists, grid \in WmsGrids, profile \in WmsProfileInputs,
       nf \in Harmonics, m \in WmsInputs :
        calWms(gasList, grid, profile, nf, m.method, m.laserSpec, m.dNu, iCutDefault,
               TRUE, FALSE)

PlotDas ==
    /\ pc = "idle"
    /\ \E gasList \in GasLists, grid \in Grids, profile \in WmsProfileInputs,
          mode \in Modes :
        calPlotDas(gasList, grid, profile, mode, iCutDefault)

PlotWms ==
    /\ pc = "idle"
    /\ \E gasList \in GasLists, grid \in WmsGrids, profile \in WmsProfileInputs,
       nf \in Harmonics, m \in GuiWmsInputs :
        calPlotWms(gasList, grid, profile, nf, m.method, m.dNu, m.laserSpec)

Next ==
    \/ CallDas
    \/ CallWms
    \/ PlotDas
    \/ PlotWms
    \/ DasIter
    \/ DasReturn
    \/ Discard

Spec == Init /\ [][Next]_vars

\* The range study: one gas of the database against every two-point grid.
RangeGrids == {<<a, b>> : a, b \in 0..GridTop}

CallRange ==
    /\ pc = "idle"
    /\ \E g \in {x \in GasParamsSet : x.gas \in DOMAIN LineData}, grid \in RangeGrids,
       profile \in Profiles :
        calDas(<<g>>, grid, profile, "Absorbance", iCutDefault, TRUE, FALSE)

NextRange ==
    \/ CallRange
    \/ DasIter
    \/ DasReturn
    \/ Discard

SpecRange == Init /\ [][NextRange]_vars

\* The two-call comparisons: calDas on short lists whose entries differ in
\* concentration and path length, in every mode, with a finished call kept.
PairGasParams ==
    {g \in [gas : {"NH3", "CO"}, p : {1013}, t : {1}, l : {1, 2}, c : {1, 2}] :
        /\ g.l + g.c <= 3
        /\ g.gas = "CO" => g.l + g.c = 2}

PairGasLists == SeqsUpTo(PairGasParams, MaxPairGases)

CallPair ==
    /\ pc = "idle"
    /\ \E gasList \in PairGasLists, profile \in {"Voigt", "Gauss"}, mode \in Modes :
        calDas(gasList, <<4, 6>>, profile, mode, iCutDefault, TRUE, FALSE)

NextPair ==
    \/ CallPair
    \/ DasIter
    \/ DasReturn
    \/ Return
    \/ Keep

SpecPair == Init /\ [][NextPair]_vars

\* The parameter study: calDas and both calWms methods on one gas, over path
\* lengths, grids, modulation depths and laser configurations (sampling, ramp
\* and modulation frequencies, DC power).
StudyGasParams == [gas : {"NH3"}, p : {1013}, t : {1}, l : {0, 1}, c : {1}]

StudyGrids == {<<4, 6>>, <<5, 6>>, <<5, 5>>}

StudyDepths == {Some(1024), Some(1365), Some(3072)}

StudyLaser ==
    [fS |-> 8, fMod |-> 2, fRamp |-> 2, aRamp |-> 4, aMod |-> 2, tRamp |-> 5,
     tMod |-> 5, c2p |-> 1000, laserDC |-> 1, fCut |-> 1, phase |-> 0,
     central_wavelength |-> 5]

StudyLasers ==
    {[StudyLaser EXCEPT !.fS = a, !.fRamp = b, !.fMod = c, !.laserDC = d] :
        a \in {6, 8, 10}, b \in {0, 2, 4}, c \in {0, 2}, d \in {1, 5}}

StudyDas ==
    /\ pc = "idle"
    /\ \E g \in StudyGasParams, grid \in StudyGrids, mode \in Modes :
        calDas(<<g>>, grid, "Voigt", mode, iCutDefault, TRUE, FALSE)

\* The conversions a caller can select (xi_to_nden, mden_to_nden): the volume
\* mixing ratio, which is the default of lines 121-122 and 281-282, or the molar
\* density.
StudyConversions == {<<TRUE, FALSE>>, <<FALSE, TRUE>>}

StudyWms ==
    /\ pc = "idle"
    /\ \E g \in StudyGasParams, grid \in StudyGrids, nf \in Harmonics :
       \E iCut \in ICuts, cv \in StudyConversions :
        \/ \E dNu \in StudyDepths :
              calWms(<<g>>, grid, "Voigt", nf, "Theoretical", None, dNu, iCut,
                     cv[1], cv[2])
        \/ \E ls \in StudyLasers :
              calWms(<<g>>, grid, "Voigt", nf, "Simulation with parameters", Some(ls),
                     None, iCut, cv[1], cv[2])

NextParams ==
    \/ StudyDas
    \/ StudyWms
    \/ DasIter
    \/ DasReturn
    \/ Discard

SpecParams == Init /\ [][NextParams]_vars

\* The study of the two pure functions: peakTroughHeight on every short signal
\* of three levels, and generateEtalons on short lists of parts.
Signals == UNION {[1..k -> 0..2] : k \in 1..MaxSignal}

EtalonParamsSet == [n : {145}, theta : {0, 1}, l : {1}, R : {0, 4, 50, 100}]

CallPeakTrough ==
    /\ pc = "idle"
    /\ \E signal \in Signals, startIdx \in {0, 1}, avgWindow \in {2, 4} :
        CallUtil([api |-> "peakTroughHeight", signal |-> signal, startIdx |-> startIdx,
                  endIdx |-> Len(signal), avgWindow |-> avgWindow],
                 peakTroughHeight(signal, startIdx, Len(signal), avgWindow))

CallEtalons ==
    /\ pc = "idle"
    /\ \E etalonParams \in SeqsUpTo(EtalonParamsSet, MaxEtalons) :
        CallUtil([api |-> "generateEtalons", etalonParams |-> etalonParams],
                 generateEtalons(etalonParams))

NextUtil ==
    \/ CallPeakTrough
    \/ CallEtalons
    \/ Discard

SpecUtil == Init /\ [][NextUtil]_vars

\* The study of lineInfo: addgas, setngas and clear on one ngas object. A
\* molecule is given as a str or a unicode text (with or without a data file)
\* or as a list of names.
Molecs ==
    {[type |-> "str", name |-> "NH3"], [type |-> "unicode", name |-> "NH3"],
     [type |-> "str", name |-> "CO"], [type |-> "list", name |-> "NH3"]}

Temperatures == {293, 300}

Pressures == {1}

MolecTables == SeqsUpTo(Molecs \X Temperatures \X Pressures, MaxNgas)

CallAddGas ==
    /\ pc = "idle"
    /\ Len(ngas.molec) < MaxNgas
    /\ \E molec \in Molecs, T \in Temperatures, P \in Pressures :
        CallNgas([api |-> "addgas", self |-> ngas, cwd |-> cwd, molec |-> molec,
                  T |-> T, P |-> P],
                 addgas(ngas, cwd, molec, T, P))

CallSetNgas ==
    /\ pc = "idle"
    /\ \E molecTable \in MolecTables :
        /\ Len(ngas.molec) + Len(molecTable) <= MaxNgas
        /\ CallNgas([api |-> "setngas", self |-> ngas, cwd |-> cwd,
                     molecTable |-> molecTable],
                    setngas(ngas, cwd, molecTable))

CallClear ==
    /\ pc = "idle"
    /\ CallNgas([api |-> "clear", self |-> ngas, cwd |-> cwd],
                [kind |-> "none", msg |-> "", self |-> clear(ngas), cwd |-> cwd])

NextLineInfo ==
    \/ CallAddGas
    \/ CallSetNgas
    \/ CallClear
    \/ Discard

SpecLineInfo == Init /\ [][NextLineInfo]_vars

----------------------------------------------------------------------------
(* Properties *)

Done == pc = "done"
DasCall == req.api = "calDas"
Supported == req.profile \in {"Voigt", "HT", "Doppler", "Lorentz"}

\* Validity of a gas entry against the database the call found and a grid: its
\* table exists, and the grid lies within the table's line positions widened by
\* 1 cm^-1 at both ends.
Known(g) == g.gas \in DOMAIN tables0
TableLo(g) == SetMin({ln.nu : ln \in tables0[g.gas]})
TableHi(g) == SetMax({ln.nu : ln \in tables0[g.gas]})
GridLo(grid) == SetMin({grid[i] : i \in DOMAIN grid})
GridHi(grid) == SetMax({grid[i] : i \in DOMAIN grid})
Covered(g, grid) == GridLo(grid) >= TableLo(g) - 1 /\ GridHi(grid) <= TableHi(g) + 1
ValidGas(g, grid) == Known(g) /\ Covered(g, grid)
InvalidIdx == {i \in 1..Len(req.gasList) : ~ValidGas(req.gasList[i], req.nu)}
FirstInvalid == SetMin(InvalidIdx)
FailureOf(g) ==
    IF Known(g) THEN "Cannot find lines within specified wavenumber range, please download data."
    ELSE "Cannot find specified gas."

\* C1: calDas is all-or-nothing. Whenever a gas of the list fails validation
\* (unknown to the database, or grid outside its line range) the finished call
\* carries no Spectrum at all, also none for valid gases before the failing one,
\* and (the profile being one of the four) it is one returned message.
C1_AllOrNothing ==
    (Done /\ DasCall /\ InvalidIdx # {}) =>
        /\ ret.kind # "results"
        /\ ret.val = <<>>
        /\ Supported => ret.kind = "message" /\ ret.msg \in {MsgNoGas, MsgNoLines}

\* A failed batch whose first gas was valid and fully processed.
C1_Witness ==
    /\ Done /\ DasCall /\ Supported
    /\ Len(req.gasList) >= 2
    /\ ValidGas(req.gasList[1], req.nu)
    /\ ~ValidGas(req.gasList[2], req.nu)
    /\ \E k \in DOMAIN log : log[k].op = "dropTable" /\ log[k].i = 1
    /\ ret.kind = "message"

\* C2: on success calDas and both calWms methods return exactly one result per
\* input gas, in input order: result i carries the gas parameters of gasList[i].
C2_OnePerGasInOrder ==
    (Done /\ req.api \in {"calDas", "calWms"} /\ ret.kind = "results") =>
        /\ Len(ret.val) = Len(req.gasList)
        /\ \A i \in 1..Len(req.gasList) : ret.val[i].gasParams = req.gasList[i]

\* A successful simulation-method call on a list with the same gas twice,
\* followed by a different one.
C2_Witness ==
    /\ Done /\ req.api = "calWms" /\ req.method = "Simulation with parameters"
    /\ ret.kind = "results"
    /\ Len(req.gasList) = 3
    /\ req.gasList[1] = req.gasList[2]
    /\ req.gasList[3] # req.gasList[1]

\* C3: gases are processed in input order and the first error wins. The database
\* calls of a call never go back to an earlier gas; and when gases of a batch are
\* invalid (the profile being one of the four), the call returns the failure of
\* the first invalid gas and has made no database call for any gas after it.
C3_FirstErrorWins ==
    /\ \A a, b \in DOMAIN log : a < b => log[a].i <= log[b].i
    /\ (Done /\ DasCall /\ Supported /\ InvalidIdx # {}) =>
          /\ ret.kind = "message"
          /\ ret.msg = FailureOf(req.gasList[FirstInvalid])
          /\ \A k \in DOMAIN log : log[k].i <= FirstInvalid
          /\ \A k \in DOMAIN log :
                log[k].i = FirstInvalid => log[k].op \in {"tableList", "getColumn"}

\* A batch of a valid gas, then a gas out of range, then an unknown gas.
C3_Witness ==
    /\ Done /\ DasCall /\ Supported
    /\ Len(req.gasList) = 3
    /\ InvalidIdx = {2, 3}
    /\ Known(req.gasList[2])
    /\ ~Known(req.gasList[3])
    /\ ret.kind = "message"

\* C4 (as amended): for a gas of the database and every position of the grid
\* relative to its line range [lo, hi]: a grid entirely outside the range by more
\* than the 1 cm^-1 tolerance yields the range failure, and a grid whose two ends
\* lie within [lo - 1, hi + 1] passes range validation.
RangeCase ==
    Done /\ DasCall /\ Supported /\ Len(req.gasList) = 1 /\ Known(req.gasList[1])
RangeFailure == ret.kind = "message" /\ ret.msg = MsgNoLines
C4_RangeValidation ==
    RangeCase =>
        LET g == req.gasList[1]
        IN  /\ (GridHi(req.nu) < TableLo(g) - 1 \/ GridLo(req.nu) > TableHi(g) + 1)
                  => RangeFailure
            /\ (GridLo(req.nu) >= TableLo(g) - 1 /\ GridHi(req.nu) <= TableHi(g) + 1)
                  => ret.kind = "results"

\* A grid that reaches exactly 1 cm^-1 beyond both ends of the range, and passed.
C4_Witness ==
    /\ RangeCase
    /\ GridLo(req.nu) = TableLo(req.gasList[1]) - 1
    /\ GridHi(req.nu) = TableHi(req.gasList[1]) + 1
    /\ ret.kind = "results"

\* C4 as stated: every grid entirely outside the line range yields the range
\* failure (and a grid within the tolerance passes).
C4_Original ==
    RangeCase =>
        LET g == req.gasList[1]
        IN  /\ (GridHi(req.nu) < TableLo(g) \/ GridLo(req.nu) > TableHi(g))
                  => RangeFailure
            /\ (GridLo(req.nu) >= TableLo(g) - 1 /\ GridHi(req.nu) <= TableHi(g) + 1)
                  => ret.kind = "results"

\* C5: a profile that is not one of the four is a validation error: whatever the
\* gas list, the call makes no database call at all and ends with a returned
\* message, like the unknown-gas and range failures.
C5_UnsupportedProfile ==
    (Done /\ DasCall /\ ~Supported) =>
        /\ ret.kind = "message"
        /\ log = <<>>
        /\ tables = tables0

\* C6: the simulation method invoked without a laser configuration ends, before
\* any database call, with a reported message and not with a fault.
C6_MissingLaserSpec ==
    (Done /\ req.api = "calWms" /\ req.method = "Simulation with parameters"
          /\ ~req.laserSpec.some) =>
        /\ ret.kind = "message"
        /\ log = <<>>

\* Two calDas requests that agree in everything but the named fields.
SameGases(r1, r2, fields) ==
    /\ Len(r1.gasList) = Len(r2.gasList)
    /\ \A i \in 1..Len(r1.gasList) :
          \A f \in {"gas", "p", "t", "l", "c"} \ fields :
              r1.gasList[i][f] = r2.gasList[i][f]
SameCall(r1, r2) ==
    /\ r1.api = r2.api /\ r1.nu = r2.nu /\ r1.profile = r2.profile
    /\ r1.iCut = r2.iCut /\ r1.xi_to_nden = r2.xi_to_nden
    /\ r1.mden_to_nden = r2.mden_to_nden

\* The finished call and the kept one are calDas calls that found the same
\* database and both returned results.
Comparable ==
    /\ Done /\ DasCall /\ ret.kind = "results"
    /\ ref.set /\ ref.ret.kind = "results"
    /\ ref.tables0 = tables0
    /\ SameCall(ref.req, req)

CoefficientMode(r) == r.mode \notin {"Absorbance", "Transmission"}

\* The coefficient array the adapter returned for gas i during the running call.
AdapterCoeff(i) ==
    LET k == CHOOSE j \in DOMAIN log : log[j].op = "absorptionCoefficient" /\ log[j].i = i
    IN  log[k].coeff

\* C7: in Coefficient mode the values calDas returns are the raw coefficient
\* array of the adapter, and two calls that differ only in the gases'
\* concentration and path length return equal values.
C7_CoefficientIndependent ==
    /\ (Done /\ DasCall /\ ret.kind = "results" /\ CoefficientMode(req)) =>
          \A i \in 1..Len(ret.val) : ret.val[i].spectrum = AdapterCoeff(i)
    /\ (Comparable /\ CoefficientMode(req) /\ ref.req.mode = req.mode
                   /\ SameGases(ref.req, req, {"c", "l"})) =>
          /\ Len(ref.ret.val) = Len(ret.val)
          /\ \A i \in 1..Len(ret.val) : ref.ret.val[i].spectrum = ret.val[i].spectrum

\* Two Coefficient-mode calls on a gas with different concentration and different
\* path length.
C7_Witness ==
    /\ Comparable /\ CoefficientMode(req) /\ ref.req.mode = req.mode
    /\ SameGases(ref.req, req, {"c", "l"})
    /\ Len(req.gasList) >= 1
    /\ \E i \in 1..Len(req.gasList) :
          \/ ref.req.gasList[i].c # req.gasList[i].c
          \/ ref.req.gasList[i].l # req.gasList[i].l
    /\ \E i \in 1..Len(ret.val) : \E j \in DOMAIN ret.val[i].spectrum :
          ret.val[i].spectrum[j] > 0

\* The kept call is the Absorbance-mode twin of the finished Transmission-mode call.
ModeTwins ==
    /\ Comparable
    /\ req.mode = "Transmission" /\ ref.req.mode = "Absorbance"
    /\ SameGases(ref.req, req, {})

\* C8 (as amended): for the same valid inputs every Transmission value equals
\* exp(-a), a being the Absorbance value at the same grid point; for a >= 0 it
\* lies in [0,1], and in (0,1] as long as a is below the underflow threshold of
\* exp.
C8_RoundTrip ==
    ModeTwins =>
        /\ Len(ref.ret.val) = Len(ret.val)
        /\ \A i \in 1..Len(ret.val) :
              /\ DOMAIN ret.val[i].spectrum = DOMAIN ref.ret.val[i].spectrum
              /\ \A j \in DOMAIN ret.val[i].spectrum :
                    LET a == ref.ret.val[i].spectrum[j]
                        t == ret.val[i].spectrum[j]
                    IN  /\ t = npExpNeg(a)
                        /\ a >= 0 => (t >= 0 /\ t <= ExpOne)
                        /\ (a >= 0 /\ a < ExpUnderflow) => t > 0

\* Twin calls with a positive absorbance below the threshold and one at or above it.
C8_Witness ==
    /\ ModeTwins
    /\ \E i \in 1..Len(ret.val) : \E j \in DOMAIN ret.val[i].spectrum :
          ref.ret.val[i].spectrum[j] > 0 /\ ret.val[i].spectrum[j] > 0
          /\ ret.val[i].spectrum[j] < ExpOne
    /\ \E i \in 1..Len(ret.val) : \E j \in DOMAIN ret.val[i].spectrum :
          ref.ret.val[i].spectrum[j] >= ExpUnderflow

\* C8 as stated: every Transmission value is exp(-a) and lies in (0,1] whenever
\* a >= 0.
C8_Original ==
    ModeTwins =>
        \A i \in 1..Len(ret.val) : \A j \in DOMAIN ret.val[i].spectrum :
            LET a == ref.ret.val[i].spectrum[j]
                t == ret.val[i].spectrum[j]
            IN  /\ t = npExpNeg(a)
                /\ a >= 0 => (t > 0 /\ t <= ExpOne)

\* C9: calDas has no hidden state. A call with the inputs of the kept call, on a
\* database with the contents the kept call found, ends with the same outcome,
\* whatever calls were made in between.
C9_NoHiddenState ==
    (Done /\ DasCall /\ ref.set /\ ref.req = req /\ ref.tables0 = tables0) =>
        ref.ret = ret

\* A repeated successful call, made after a call that left results behind.
C9_Witness ==
    /\ Done /\ DasCall /\ ref.set /\ ref.req = req /\ ref.tables0 = tables0
    /\ ret.kind = "results"
    /\ Len(ret.val) >= 1

\* C10: when the adapter returns a grid different from the one it was given,
\* every Spectrum carries the grid the adapter returned for its gas, and every
\* gas of the batch is evaluated over the grid the caller supplied.
AdapterCalls == {k \in DOMAIN log : log[k].op = "absorptionCoefficient"}
C10_SharedGrid ==
    (Done /\ DasCall /\ ret.kind = "results"
          /\ \E k \in AdapterCalls : log[k].nu # log[k].grid) =>
        /\ \A k \in AdapterCalls : ret.val[log[k].i].nu = log[k].nu
        /\ \A k \in AdapterCalls : log[k].grid = req.nu

\* The failure calDas reports for the arguments it was called with (frame), on
\* the database the call found: the unsupported profile once the first gas has
\* passed validation, otherwise the failure of the first invalid gas.
WmsCall == req.api = "calWms"
DasInvalidIdx ==
    {i \in 1..Len(frame.gasList) : ~ValidGas(frame.gasList[i], frame.nu)}
DasFails ==
    /\ Len(frame.gasList) >= 1
    /\ DasInvalidIdx # {} \/ frame.profile \notin {"Voigt", "HT", "Doppler", "Lorentz"}
DasFailure ==
    IF /\ frame.profile \notin {"Voigt", "HT", "Doppler", "Lorentz"}
       /\ ValidGas(frame.gasList[1], frame.nu)
    THEN Outcome("exception", "No suitable profile.", <<>>)
    ELSE Outcome("message", FailureOf(frame.gasList[SetMin(DasInvalidIdx)]), <<>>)

\* C11: both WMS methods are all-or-nothing with respect to their calDas call.
\* Whenever calDas fails for the arguments calWms called it with, calWms ends
\* with exactly that failure (the same message returned, the same exception
\* raised) and carries no WmsResult for any gas, also none for gases calDas had
\* processed before the failing one.
C11_WmsAllOrNothing ==
    (Done /\ WmsCall /\ DasFails) =>
        /\ ret = DasFailure
        /\ ret.kind # "results"
        /\ ret.val = <<>>

\* A Theoretical-method call, made by a script, whose first gas calDas processed
\* in full over the auxiliary grid and whose second gas failed validation.
C11_Witness ==
    /\ Done /\ WmsCall /\ DasFails /\ ~req.gui
    /\ req.method = "Theoretical"
    /\ Len(frame.gasList) >= 2
    /\ frame.nu # req.nu
    /\ ValidGas(frame.gasList[1], frame.nu)
    /\ ~ValidGas(frame.gasList[2], frame.nu)
    /\ \E k \in DOMAIN log : log[k].op = "dropTable" /\ log[k].i = 1
    /\ ret.kind = "message"

Theoretical == WmsCall /\ req.method = "Theoretical"
Simulation == WmsCall /\ req.method = "Simulation with parameters"

\* round(a / b) for a >= 0 and b > 0.
RoundDiv(a, b) == (2 * a + b) \div (2 * b)

\* C12: in the Theoretical method the auxiliary grid calDas is called with runs
\* from min(grid) to max(grid) and has exactly round((max - min) / dNu * 1024) + 1
\* points, for every grid extent and every modulation depth dNu > 0.
C12_AuxiliaryGrid ==
    (Done /\ Theoretical /\ req.dNu.some /\ req.dNu.v > 0) =>
        LET lo == GridLo(req.nu)
            hi == GridHi(req.nu)
        IN  /\ Len(frame.nu) = RoundDiv((hi - lo) * 1024, req.dNu.v) + 1
            /\ frame.nu[1] = lo
            /\ frame.nu[Len(frame.nu)] = hi

\* The ramp and modulation currents behind sample i of an array of the
\* simulation method (an array of one element stands for every sample).
RampAt(i) == IF Len(wms.currRamp2) = 1 THEN wms.currRamp2[1] ELSE wms.currRamp2[i]
ModAt(i) == IF Len(wms.currMod2) = 1 THEN wms.currMod2[1] ELSE wms.currMod2[i]
PowerAt(i) ==
    ((RampAt(i) + ModAt(i)) * req.laserSpec.v.c2p) \div 2000 + req.laserSpec.v.laserDC

\* C13: in the simulation method every sample of the optical-power waveform is
\* (currRamp + currMod) * c2p + laserDC where that is non-negative and 0
\* otherwise; no sample is negative, for every laser configuration.
C13_IntensityClipped ==
    (Simulation /\ wms.set) =>
        \A i \in DOMAIN wms.intensity :
            /\ wms.intensity[i] >= 0
            /\ PowerAt(i) >= 0 => wms.intensity[i] = PowerAt(i)
            /\ PowerAt(i) < 0 => wms.intensity[i] = 0

\* A finished simulation with a sample of negative power clipped to 0 and a
\* sample of positive power kept.
C13_Witness ==
    /\ Done /\ Simulation /\ wms.set /\ ret.kind = "results"
    /\ \E i \in DOMAIN wms.intensity : PowerAt(i) < 0 /\ wms.intensity[i] = 0
    /\ \E i \in DOMAIN wms.intensity : PowerAt(i) > 0 /\ wms.intensity[i] = PowerAt(i)

\* C14: for every laser configuration with positive fS and fRamp the simulation
\* method builds its time base, ramp current and modulation current with the
\* same length nSamples = fS / fRamp, and every result it returns has the
\* ramp-domain wavenumber axis as its grid, with values of that same length.
C14_SampleCount ==
    (Done /\ Simulation /\ req.laserSpec.some /\ req.laserSpec.v.fS > 0
          /\ req.laserSpec.v.fRamp > 0) =>
        /\ wms.set
        /\ Len(wms.ts) * req.laserSpec.v.fRamp = req.laserSpec.v.fS
        /\ Len(wms.currRamp2) = Len(wms.ts)
        /\ Len(wms.currMod2) = Len(wms.ts)
        /\ ret.kind = "results" =>
              \A g \in 1..Len(ret.val) :
                  /\ ret.val[g].nu = wms.nuRamp
                  /\ Len(ret.val[g].nu) = Len(wms.ts)
                  /\ Len(ret.val[g].spectrum) = Len(wms.ts)

\* A gas entry or a laser configuration with a non-positive pressure,
\* temperature, path length or frequency.
NonPositiveGas == \E i \in 1..Len(req.gasList) :
    req.gasList[i].p <= 0 \/ req.gasList[i].t <= 0 \/ req.gasList[i].l <= 0
NonPositiveFrequency ==
    /\ Simulation /\ req.laserSpec.some
    /\ \/ req.laserSpec.v.fS <= 0 \/ req.laserSpec.v.fRamp <= 0
       \/ req.laserSpec.v.fMod <= 0 \/ req.laserSpec.v.fCut <= 0

\* C18: a computation given a non-positive pressure, temperature, path length
\* or frequency is rejected with InvalidParameterError; calDas and calWms never
\* return spectra computed from such values.
C18_InvalidParameter ==
    (Done /\ (DasCall \/ WmsCall) /\ (NonPositiveGas \/ NonPositiveFrequency)) =>
        /\ ret.kind # "results"
        /\ ret.msg = "InvalidParameterError"

\* The transmission of gas g, as calDas returned it, at wavenumber x.
TransmissionAt(g, x) == interp(x, results[g].nu, results[g].spectrum)

\* C20: in the simulation method, sample i of the transmitted signal of a gas is
\* intensity[i] times the transmission spectrum of that gas interpolated at the
\* reversed total-wavenumber waveform, nuTotal[N-1-i] (from 0; here N+1-i from
\* 1), for every sample i, and the result is reported against the ramp axis as
\* it was built, unreversed: its grid is nuRamp, point i being nuRamp[i].
C20_ReversedSampling ==
    (Done /\ Simulation /\ ret.kind = "results") =>
        \A g \in 1..Len(ret.val) :
            LET N == Len(wms.nuTotal)
            IN  /\ Len(wms.S[g]) = N
                /\ \A i \in 1..N :
                      wms.S[g][i] = wms.intensity[i] * TransmissionAt(g, wms.nuTotal[N + 1 - i])
                /\ ret.val[g].nu = wms.nuRamp
                /\ \A i \in DOMAIN ret.val[g].nu : ret.val[g].nu[i] = wms.nuRamp[i]

\* A finished simulation of at least three samples with a sample of positive
\* power where the transmission at the reversed position differs from the
\* transmission at the sample's own position, on a rising ramp.
C20_Witness ==
    /\ Done /\ Simulation /\ ret.kind = "results" /\ Len(ret.val) >= 1
    /\ Len(wms.nuTotal) >= 3
    /\ \E i \in DOMAIN wms.nuTotal :
          /\ wms.intensity[i] > 0
          /\ TransmissionAt(1, wms.nuTotal[Len(wms.nuTotal) + 1 - i])
                # TransmissionAt(1, wms.nuTotal[i])
    /\ wms.nuRamp[1] < wms.nuRamp[Len(wms.nuRamp)]

\* The window signal[startIdx:endIdx] of a peakTroughHeight call, its positions
\* (from 0), its global maximum, the minimum left of it and the minimum from it
\* to the right, and the averagingWindow positions centred on a position.
PeakCall == Done /\ req.api = "peakTroughHeight"
Window == [k \in 1..(req.endIdx - req.startIdx) |-> req.signal[req.startIdx + k]]
WindowPos == 0..(Len(Window) - 1)
Lowest(lo, hi) ==
    SetMin({i \in lo..hi : \A j \in lo..hi : Window[j + 1] >= Window[i + 1]})
PeakPos == SetMin({i \in WindowPos : \A j \in WindowPos : Window[j + 1] <= Window[i + 1]})
LeftTroughPos == Lowest(0, PeakPos - 1)
RightTroughPos == Lowest(PeakPos, Len(Window) - 1)
Centred(i) == (i - req.avgWindow \div 2)..(i + req.avgWindow \div 2 - 1)

\* C15: peakTroughHeight finds the global maximum of signal[startIdx:endIdx],
\* the minimum to its left and the minimum to its right, and averages each over
\* averagingWindow samples centred on that extremum's own position in the
\* window; the right-trough average is taken around the position of the minimum
\* found to the right of the peak. (Stated where the three windows are in bounds.)
C15_CentredAverages ==
    (PeakCall /\ Len(Window) >= 1 /\ PeakPos >= 1
          /\ Centred(PeakPos) \subseteq WindowPos
          /\ Centred(LeftTroughPos) \subseteq WindowPos
          /\ Centred(RightTroughPos) \subseteq WindowPos) =>
        /\ ret.kind = "value"
        /\ ret.val.peak = Centred(PeakPos)
        /\ ret.val.left = Centred(LeftTroughPos)
        /\ ret.val.right = Centred(RightTroughPos)
        /\ ret.val.pth = PeakMinusTroughs(npmean(Window, Centred(PeakPos)),
                                          npmean(Window, Centred(LeftTroughPos)),
                                          npmean(Window, Centred(RightTroughPos)))

\* C16: peakTroughHeight clips and does not fault. For every signal with a
\* non-empty window, a peak or trough near an end of the window and a peak at
\* its first sample included, it returns a number, and each of its three
\* averages is taken over the in-bounds part of the averaging window around the
\* position it found, never over an empty or wrapped-around slice.
C16_ClipsNotFaults ==
    (PeakCall /\ Len(Window) >= 1) =>
        /\ ret.kind = "value"
        /\ ~ret.val.pth.nan
        /\ ret.val.peak = Centred(ret.val.peakIdx) \cap WindowPos
        /\ ret.val.left = Centred(ret.val.lTroughIdx) \cap WindowPos
        /\ ret.val.right = Centred(ret.val.rTroughIdx) \cap WindowPos
        /\ ret.val.peak # {} /\ ret.val.left # {} /\ ret.val.right # {}

\* C17: generateEtalons is a pure per-element transform. For every list of
\* parts with reflectances in [0,1) it returns one coefficient record per part,
\* in order, with F = 4R/(1-R)^2 (R in percent, F in 1e-4 rounded down; R = 0.04
\* gives 0.1736), and the list passed in is unchanged.
C17_EtalonCoeffs ==
    (Done /\ req.api = "generateEtalons"
          /\ \A i \in 1..Len(req.etalonParams) : req.etalonParams[i].R < 100) =>
        /\ ret.kind = "value"
        /\ Len(ret.val.etalonCoeffs) = Len(req.etalonParams)
        /\ \A i \in 1..Len(req.etalonParams) :
              LET R == req.etalonParams[i].R
                  F == ret.val.etalonCoeffs[i].F
              IN  /\ F * (100 - R) * (100 - R) <= 4 * R * 1000000
                  /\ (F + 1) * (100 - R) * (100 - R) > 4 * R * 1000000
                  /\ R = 4 => F = 1736
        /\ ret.val.etalonParams = req.etalonParams

\* A list of two parts of different reflectance, the second with R = 0.04.
C17_Witness ==
    /\ Done /\ req.api = "generateEtalons" /\ ret.kind = "value"
    /\ Len(req.etalonParams) = 2
    /\ req.etalonParams[1].R = 50
    /\ req.etalonParams[2].R = 4
    /\ ret.val.etalonCoeffs[1].F = 80000
    /\ ret.val.etalonCoeffs[2].F = 1736

\* C19: ngas.addgas(molec, T, P) adds a single gas given by its molecule name.
\* After a call with a name whose data file exists, made from the home
\* directory, the name, T and P are appended to the lists molec, T and P of the
\* object and the line information of the gas is in hinfo.
C19_AddGasByName ==
    (Done /\ req.api = "addgas" /\ req.molec.type \in {"str", "unicode"}
          /\ req.molec.name \in {"NH3", "H2O"} /\ req.cwd = ".") =>
        /\ ret.kind = "none"
        /\ ngas.molec = Append(req.self.molec, req.molec)
        /\ ngas.T = Append(req.self.T, req.T)
        /\ ngas.P = Append(req.self.P, req.P)
        /\ req.molec.name \in ngas.hinfo

\* The DAS call a calWms call has made: calDas ran with the arguments in frame.
MadeDasCall == WmsCall /\ "mden_to_nden" \in DOMAIN frame

\* C21: both WMS methods obtain their transmission spectrum with the
\* concentration-to-number-density conversion the caller selected: for every
\* setting of the conversion flags passed to calWms, the DAS call made by the
\* Theoretical method and the one made by the simulation method carry those
\* flags and the caller's iCut, and so work with the number density the
\* selected conversion gives for every gas.
C21_SameConversion ==
    (Done /\ MadeDasCall) =>
        /\ frame.xi_to_nden = req.xi_to_nden
        /\ frame.mden_to_nden = req.mden_to_nden
        /\ frame.iCut = req.iCut
        /\ \A i \in 1..Len(req.gasList) :
              LET g == req.gasList[i]
              IN  NumberDensity(g, g.p, frame.xi_to_nden, frame.mden_to_nden)
                    = NumberDensity(g, g.p, req.xi_to_nden, req.mden_to_nden)

\* C22: calDas leaves the line database as it found it: whenever a call has
\* finished, by returning results, by returning a failure message for any gas
\* of the batch, or by failing on an unsupported profile, the temporary table
\* 'tmp' has been dropped and the set of tables is the set before the call.
C22_TablesRestored ==
    (Done /\ DasCall) =>
        /\ "tmp" \notin tableList(tables)
        /\ tableList(tables) = tableList(tables0)

\* C23: in every state reachable by addgas, setngas and clear calls on an ngas
\* object, calls in which loading a data file fails included, the lists molec,
\* T and P have equal length and every name in molec has an entry in hinfo;
\* clear returns the object to its initial empty state.
C23_NgasConsistent ==
    /\ Len(ngas.molec) = Len(ngas.T)
    /\ Len(ngas.T) = Len(ngas.P)
    /\ \A i \in DOMAIN ngas.molec :
          ngas.molec[i].type \in {"str", "unicode"} => ngas.molec[i].name \in ngas.hinfo
    /\ (Done /\ req.api = "clear") => ngas = NewNgas

====
